---- MODULE Spec2Model ----
(***************************************************************************)
(* Model of the SmartWater service (app/services.py, app/models.py):      *)
(* the automatic pump control, the alert rules and the status update      *)
(* handler of WaterSystemService, over the four document collections.     *)
(*                                                                         *)
(* Percentages, flow rates and kWh are floats in the source; the model    *)
(* draws them from integer values, which the floats contain.  Message     *)
(* texts are the source's texts written in ASCII.  An Optional field is   *)
(* a sequence of length 0 (None) or 1.                                     *)
(***************************************************************************)
EXTENDS Integers, Sequences, FiniteSets, TLC

VARIABLES
    status_collection,    \* system_status documents, in insertion order
    alerts_collection,    \* alerts documents, in insertion order
    logs_collection,      \* usage_logs documents, in insertion order
    settings_collection,  \* settings documents (replace_one upsert)
    report,               \* the SystemStatus as the current call received it
    status,               \* the same SystemStatus object after the call's in-place changes
    settings,             \* the SystemSettings value the current call works with
    current_hour,         \* datetime.now().hour read by the current call
    pc,                   \* what the last step was
    now,                  \* datetime.now() as last read, in clock ticks
    request,              \* the arguments of the last handler call
    result,               \* what the last handler call returned
    calls                 \* number of handler calls made so far

vars == <<status_collection, alerts_collection, logs_collection,
          settings_collection, report, status, settings, current_hour, pc,
          now, request, result, calls>>

----------------------------------------------------------------------------
(* models.py enumerations *)

TankLevel == {"empty", "low", "medium", "high", "full"}

AlertType == {"info", "warning", "error", "critical"}

PumpStatus == {"off", "on", "maintenance", "error"}

SystemMode == {"manual", "automatic", "maintenance"}

None == <<>>

Some(x) == <<x>>

\* Python's `x in list`
InList(x, list) == \E i \in DOMAIN list : list[i] = x

----------------------------------------------------------------------------
(* models.py records *)

\* SystemSettings(): the field defaults
DefaultSettings ==
    [ system_name                 |-> "SmartWater System",
      auto_mode_enabled           |-> TRUE,
      fill_trigger_level          |-> "low",
      fill_stop_level             |-> "full",
      fill_trigger_percentage     |-> 25,
      fill_stop_percentage        |-> 90,
      max_pump_runtime_minutes    |-> 60,
      max_daily_runtime_minutes   |-> 240,
      min_cisterna_level_to_start |-> "low",
      energy_saving_enabled       |-> FALSE,
      preferred_hours             |-> <<22, 23, 0, 1, 2, 3, 4, 5>>,
      avoid_peak_hours            |-> TRUE,
      peak_hours                  |-> <<18, 19, 20, 21>>,
      flow_rate_threshold         |-> 10 ]

\* The SystemSettings values the model draws from: the defaults varied in
\* the fields the control and alert logic reads.  Nothing in SystemSettings
\* relates fill_stop_percentage to fill_trigger_percentage, so (50, 50) is
\* a value of the type.
SettingsValues(autos, triggers, stops, maxruns, mincists, energies, preferreds, avoids) ==
    { [DefaultSettings EXCEPT
          !.auto_mode_enabled = a,
          !.fill_trigger_percentage = tr,
          !.fill_stop_percentage = sp,
          !.max_pump_runtime_minutes = mr,
          !.min_cisterna_level_to_start = mc,
          !.energy_saving_enabled = es,
          !.preferred_hours = ph,
          !.avoid_peak_hours = av] :
        a \in autos, tr \in triggers, sp \in stops, mr \in maxruns,
        mc \in mincists, es \in energies, ph \in preferreds, av \in avoids }

\* The SystemStatus values the model draws from.
StatusValues(tlevels, tpcts, clevels, pumps, runtimes, todays, flows, dailies, modes) ==
    { [ tinaco_level              |-> tl,
        tinaco_percentage         |-> tp,
        cisterna_level            |-> cl,
        cisterna_percentage       |-> 50,
        bomba_status              |-> b,
        bomba_runtime_minutes     |-> rt,
        bomba_total_runtime_today |-> td,
        water_flow_rate           |-> fl,
        power_consumption         |-> 750,
        daily_power_consumption   |-> dp,
        last_updated              |-> 0,
        system_mode               |-> m ] :
        tl \in tlevels, tp \in tpcts, cl \in clevels, b \in pumps,
        rt \in runtimes, td \in todays, fl \in flows, dp \in dailies,
        m \in modes }

\* Alert(message=..., alert_type=..., component=..., severity_level=...)
Alert(message, alert_type, component, severity) ==
    [ message        |-> message,
      alert_type     |-> alert_type,
      component      |-> component,
      severity_level |-> severity,
      resolved       |-> FALSE,
      resolved_at    |-> None,
      resolved_by    |-> None,
      auto_generated |-> TRUE ]

\* A message: the text of the (f-)string and the numbers formatted into it.
Msg(text) == [text |-> text, args |-> <<>>]

MsgWith(text, value) == [text |-> text, args |-> <<value>>]

----------------------------------------------------------------------------
(* services.py: the store helpers.  A call works on a context            *)
(* [status, alerts, logs]: the status object and the two collections it   *)
(* appends to.                                                             *)

Ctx(st, alerts, logs) == [status |-> st, alerts |-> alerts, logs |-> logs]

create_alert(ctx, message, alert_type, component, severity) ==
    [ctx EXCEPT !.alerts = Append(@, Alert(message, alert_type, component, severity))]

\* duration and water_amount left at None
_log_activity(ctx, action, action_description) ==
    [ctx EXCEPT !.logs = Append(@,
        [ action                   |-> action,
          tinaco_level_before      |-> ctx.status.tinaco_level,
          tinaco_level_after       |-> ctx.status.tinaco_level,
          tinaco_percentage_before |-> ctx.status.tinaco_percentage,
          tinaco_percentage_after  |-> ctx.status.tinaco_percentage,
          duration_minutes         |-> None,
          water_amount_liters      |-> None,
          power_consumed_kwh       |-> None,
          triggered_by             |-> "system",
          operation_mode           |-> ctx.status.system_mode,
          notes                    |-> action_description ])]

----------------------------------------------------------------------------
(* services.py: _apply_automatic_control *)

\* the start also requires the cisterna at the configured minimum: a
\* cisterna at low starts the pump only when the minimum is low or less
should_start_pump_min_cisterna(st, se) ==
    /\ st.tinaco_percentage <= se.fill_trigger_percentage
    /\ st.cisterna_level # "empty"
    /\ st.cisterna_level = "low" => se.min_cisterna_level_to_start \in {"empty", "low"}
    /\ st.bomba_status = "off"
    /\ st.bomba_total_runtime_today < se.max_daily_runtime_minutes

should_start_pump(st, se) ==
    /\ st.tinaco_percentage <= se.fill_trigger_percentage
    /\ st.cisterna_level # "empty"
    /\ st.bomba_status = "off"
    /\ st.bomba_total_runtime_today < se.max_daily_runtime_minutes

\* the membership test inverted: defers inside the preferred hours
energy_saving_defers_in_preferred(se, hour) ==
    se.energy_saving_enabled /\ InList(hour, se.preferred_hours)

energy_saving_defers(se, hour) ==
    se.energy_saving_enabled /\ ~InList(hour, se.preferred_hours)

peak_hours_defers(se, hour) ==
    se.avoid_peak_hours /\ InList(hour, se.peak_hours)

\* the pump-state test loosened from "is on" to "is not off"
should_stop_pump_not_off(st, se) ==
    /\ st.bomba_status # "off"
    /\ \/ st.tinaco_percentage >= se.fill_stop_percentage
       \/ st.cisterna_level = "empty"
       \/ st.bomba_runtime_minutes >= se.max_pump_runtime_minutes

should_stop_pump(st, se) ==
    /\ st.bomba_status = "on"
    /\ \/ st.tinaco_percentage >= se.fill_stop_percentage
       \/ st.cisterna_level = "empty"
       \/ st.bomba_runtime_minutes >= se.max_pump_runtime_minutes

\* the two overriding tests in the opposite order: runtime before cisterna
stop_reason_runtime_first(st, se) ==
    IF st.bomba_runtime_minutes >= se.max_pump_runtime_minutes
    THEN "Tiempo maximo alcanzado"
    ELSE IF st.cisterna_level = "empty" THEN "Cisterna vacia"
         ELSE "Llenado completado"

\* the fill level tested before the runtime
stop_reason_fill_first(st, se) ==
    IF st.cisterna_level = "empty" THEN "Cisterna vacia"
    ELSE IF st.tinaco_percentage >= se.fill_stop_percentage
         THEN "Llenado completado"
         ELSE IF st.bomba_runtime_minutes >= se.max_pump_runtime_minutes
              THEN "Tiempo maximo alcanzado"
              ELSE "Llenado completado"

stop_reason(st, se) ==
    IF st.cisterna_level = "empty" THEN "Cisterna vacia"
    ELSE IF st.bomba_runtime_minutes >= se.max_pump_runtime_minutes
         THEN "Tiempo maximo alcanzado"
         ELSE "Llenado completado"

\* f"Bomba apagada automaticamente: {reason}"
stop_message(reason) ==
    CASE reason = "Cisterna vacia" ->
           Msg("Bomba apagada automaticamente: Cisterna vacia")
      [] reason = "Tiempo maximo alcanzado" ->
           Msg("Bomba apagada automaticamente: Tiempo maximo alcanzado")
      [] OTHER ->
           Msg("Bomba apagada automaticamente: Llenado completado")

\* the start also resets the continuous runtime of the status
start_pump_resets_runtime(ctx) ==
    LET on == [ctx EXCEPT !.status.bomba_status = "on",
                          !.status.system_mode = "automatic",
                          !.status.bomba_runtime_minutes = 0]
    IN _log_activity(
         create_alert(on, Msg("Bomba encendida automaticamente"), "info", "bomba", 3),
         "auto_start", None)

\* lines 290-297
start_pump(ctx) ==
    LET on == [ctx EXCEPT !.status.bomba_status = "on",
                          !.status.system_mode = "automatic"]
    IN _log_activity(
         create_alert(on, Msg("Bomba encendida automaticamente"), "info", "bomba", 3),
         "auto_start", None)

\* lines 308-321
stop_pump(ctx, se) ==
    LET off == [ctx EXCEPT !.status.bomba_status = "off"]
        reason == stop_reason(off.status, se)
    IN _log_activity(
         create_alert(off, stop_message(reason), "info", "bomba", 3),
         "auto_stop", Some(reason))

\* lines 299-321: the second `if`, evaluated on the status the first one left
stop_phase(ctx, se) ==
    IF should_stop_pump(ctx.status, se) THEN stop_pump(ctx, se) ELSE ctx

\* the stop test as an `elif` of the start test: a pump the call has just
\* started is not tested for stopping
_apply_automatic_control_elif(ctx, se, hour) ==
    IF should_start_pump(ctx.status, se)
    THEN IF energy_saving_defers(se, hour)
         THEN create_alert(ctx, Msg("Llenado pospuesto por modo ahorro energetico"),
                           "info", "sistema", 3)
         ELSE IF peak_hours_defers(se, hour)
              THEN create_alert(ctx, Msg("Llenado pospuesto por horas pico"),
                                "info", "sistema", 3)
              ELSE start_pump(ctx)
    ELSE stop_phase(ctx, se)

\* the two policy gates in the opposite order: peak hours before energy saving
_apply_automatic_control_peak_first(ctx, se, hour) ==
    IF should_start_pump(ctx.status, se)
    THEN IF peak_hours_defers(se, hour)
         THEN create_alert(ctx, Msg("Llenado pospuesto por horas pico"),
                           "info", "sistema", 3)
         ELSE IF energy_saving_defers(se, hour)
              THEN create_alert(ctx, Msg("Llenado pospuesto por modo ahorro energetico"),
                                "info", "sistema", 3)
              ELSE stop_phase(start_pump(ctx), se)
    ELSE stop_phase(ctx, se)

_apply_automatic_control(ctx, se, hour) ==
    IF should_start_pump(ctx.status, se)
    THEN IF energy_saving_defers(se, hour)
         THEN create_alert(ctx, Msg("Llenado pospuesto por modo ahorro energetico"),
                           "info", "sistema", 3)
         ELSE IF peak_hours_defers(se, hour)
              THEN create_alert(ctx, Msg("Llenado pospuesto por horas pico"),
                                "info", "sistema", 3)
              ELSE stop_phase(start_pump(ctx), se)
    ELSE stop_phase(ctx, se)

----------------------------------------------------------------------------
(* services.py: _check_and_generate_alerts *)

\* line 355: the literal 5.0 (kWh)
DailyPowerAlarmKwh == 5

cisterna_empty_rule(st) == st.cisterna_level = "empty"

\* the runtime rule made to hold only while the pump is on
pump_runtime_rule_while_on(st, se) ==
    /\ st.bomba_status = "on"
    /\ st.bomba_runtime_minutes > se.max_pump_runtime_minutes

\* the comparison loosened to >=, the one the stop condition uses
pump_runtime_rule_at_limit(st, se) ==
    st.bomba_runtime_minutes >= se.max_pump_runtime_minutes

pump_runtime_rule(st, se) ==
    st.bomba_runtime_minutes > se.max_pump_runtime_minutes

tinaco_low_rule(st) ==
    /\ st.tinaco_level = "low"
    /\ st.cisterna_level # "empty"
    /\ st.bomba_status = "off"

\* the comparison loosened from > to >=
daily_power_rule_at_threshold(st) ==
    st.daily_power_consumption >= DailyPowerAlarmKwh

daily_power_rule(st) == st.daily_power_consumption > DailyPowerAlarmKwh

low_flow_rule(st, se) ==
    /\ st.bomba_status = "on"
    /\ st.water_flow_rate < se.flow_rate_threshold

\* One entry of alerts_to_create: (message, alert_type, component, severity)
Entry(message, alert_type, component, severity) ==
    [message |-> message, alert_type |-> alert_type,
     component |-> component, severity |-> severity]

AppendIf(cond, list, entry) == IF cond THEN Append(list, entry) ELSE list

\* the five `if`s chained as if / elif: only the first rule that holds fires
alerts_to_create_first_match(st, se) ==
    IF cisterna_empty_rule(st)
    THEN <<Entry(Msg("CRITICO: Cisterna vacia - Revisar suministro de agua"),
                 "critical", "cisterna", 5)>>
    ELSE IF pump_runtime_rule(st, se)
    THEN <<Entry(MsgWith("Bomba funcionando {} minutos - Posible fuga u obstruccion",
                         st.bomba_runtime_minutes),
                 "error", "bomba", 4)>>
    ELSE IF tinaco_low_rule(st)
    THEN <<Entry(Msg("Nivel de tinaco bajo - Llenado requerido"),
                 "warning", "tinaco", 3)>>
    ELSE IF daily_power_rule(st)
    THEN <<Entry(MsgWith("Consumo energetico alto: {:.2f} kWh hoy",
                         st.daily_power_consumption),
                 "warning", "energia", 3)>>
    ELSE IF low_flow_rule(st, se)
    THEN <<Entry(MsgWith("Flujo de agua bajo: {:.1f} L/min", st.water_flow_rate),
                 "warning", "bomba", 3)>>
    ELSE <<>>

\* lines 329-367
alerts_to_create(st, se) ==
    LET a1 == AppendIf(cisterna_empty_rule(st), <<>>,
                  Entry(Msg("CRITICO: Cisterna vacia - Revisar suministro de agua"),
                        "critical", "cisterna", 5))
        a2 == AppendIf(pump_runtime_rule(st, se), a1,
                  Entry(MsgWith("Bomba funcionando {} minutos - Posible fuga u obstruccion",
                                st.bomba_runtime_minutes),
                        "error", "bomba", 4))
        a3 == AppendIf(tinaco_low_rule(st), a2,
                  Entry(Msg("Nivel de tinaco bajo - Llenado requerido"),
                        "warning", "tinaco", 3))
        a4 == AppendIf(daily_power_rule(st), a3,
                  Entry(MsgWith("Consumo energetico alto: {:.2f} kWh hoy",
                                st.daily_power_consumption),
                        "warning", "energia", 3))
        a5 == AppendIf(low_flow_rule(st, se), a4,
                  Entry(MsgWith("Flujo de agua bajo: {:.1f} L/min", st.water_flow_rate),
                        "warning", "bomba", 3))
    IN a5

\* lines 369-371: create_alert for each entry, in list order
RECURSIVE create_all(_, _)
create_all(ctx, entries) ==
    IF entries = <<>> THEN ctx
    ELSE create_all(
           create_alert(ctx, Head(entries).message, Head(entries).alert_type,
                        Head(entries).component, Head(entries).severity),
           Tail(entries))

_check_and_generate_alerts(ctx, se) ==
    create_all(ctx, alerts_to_create(ctx.status, se))

----------------------------------------------------------------------------
(* services.py: get_settings, update_system_status *)

\* find_one() on the settings collection; SystemSettings() when it is empty
get_settings(coll) == IF Len(coll) > 0 THEN coll[1] ELSE DefaultSettings

\* the alert rules run before automatic control, on the status as received
update_system_status_alerts_first(db, st, hour) ==
    LET inserted == Append(db.status_collection, st)
        se == get_settings(db.settings_collection)
        c0 == Ctx(st, db.alerts_collection, db.logs_collection)
        c1 == _check_and_generate_alerts(c0, se)
        c2 == IF se.auto_mode_enabled
              THEN _apply_automatic_control(c1, se, hour)
              ELSE c1
        c3 == _log_activity(c2, "status_update", None)
    IN [ status_collection   |-> inserted,
         alerts_collection   |-> c3.alerts,
         logs_collection     |-> c3.logs,
         settings_collection |-> db.settings_collection,
         status              |-> c3.status,
         settings            |-> se,
         result              |-> TRUE ]

\* automatic control run whatever auto_mode_enabled says
update_system_status_always_control(db, st, hour) ==
    LET inserted == Append(db.status_collection, st)
        se == get_settings(db.settings_collection)
        c0 == Ctx(st, db.alerts_collection, db.logs_collection)
        c1 == _apply_automatic_control(c0, se, hour)
        c2 == _check_and_generate_alerts(c1, se)
        c3 == _log_activity(c2, "status_update", None)
    IN [ status_collection   |-> inserted,
         alerts_collection   |-> c3.alerts,
         logs_collection     |-> c3.logs,
         settings_collection |-> db.settings_collection,
         status              |-> c3.status,
         settings            |-> se,
         result              |-> TRUE ]

\* the closing _log_activity("status_update", ...) left out
update_system_status_unlogged(db, st, hour) ==
    LET inserted == Append(db.status_collection, st)
        se == get_settings(db.settings_collection)
        c0 == Ctx(st, db.alerts_collection, db.logs_collection)
        c1 == IF se.auto_mode_enabled
              THEN _apply_automatic_control(c0, se, hour)
              ELSE c0
        c2 == _check_and_generate_alerts(c1, se)
    IN [ status_collection   |-> inserted,
         alerts_collection   |-> c2.alerts,
         logs_collection     |-> c2.logs,
         settings_collection |-> db.settings_collection,
         status              |-> c2.status,
         settings            |-> se,
         result              |-> TRUE ]

\* the document inserted after automatic control instead of before it
update_system_status_insert_last(db, st, hour) ==
    LET se == get_settings(db.settings_collection)
        c0 == Ctx(st, db.alerts_collection, db.logs_collection)
        c1 == IF se.auto_mode_enabled
              THEN _apply_automatic_control(c0, se, hour)
              ELSE c0
        c2 == _check_and_generate_alerts(c1, se)
        c3 == _log_activity(c2, "status_update", None)
    IN [ status_collection   |-> Append(db.status_collection, c1.status),
         alerts_collection   |-> c3.alerts,
         logs_collection     |-> c3.logs,
         settings_collection |-> db.settings_collection,
         status              |-> c3.status,
         settings            |-> se,
         result              |-> TRUE ]

\* The call's result: the collections after it, the status object as the
\* call left it, the settings it read and the value returned.
\* The document inserted is status.dict() taken before automatic control
\* runs; the stores are taken to accept every write.
update_system_status(db, st, hour) ==
    LET inserted == Append(db.status_collection, st)
        se == get_settings(db.settings_collection)
        c0 == Ctx(st, db.alerts_collection, db.logs_collection)
        c1 == IF se.auto_mode_enabled
              THEN _apply_automatic_control(c0, se, hour)
              ELSE c0
        c2 == _check_and_generate_alerts(c1, se)
        c3 == _log_activity(c2, "status_update", None)
    IN [ status_collection   |-> inserted,
         alerts_collection   |-> c3.alerts,
         logs_collection     |-> c3.logs,
         settings_collection |-> db.settings_collection,
         status              |-> c3.status,
         settings            |-> se,
         result              |-> TRUE ]

----------------------------------------------------------------------------
(* services.py: get_current_status, manual_pump_control *)

\* find_one(sort=[("last_updated", -1)]): the documents it may return.  The
\* sort does not order documents with equal last_updated, so each of the
\* newest ones is a possible answer; none when the collection is empty.
get_current_status(coll) ==
    { coll[i] : i \in { k \in DOMAIN coll :
                          \A j \in DOMAIN coll :
                              coll[j].last_updated <= coll[k].last_updated } }

\* a call that returns before it writes anything
Returned(db, st, success, message) ==
    [ status_collection   |-> db.status_collection,
      alerts_collection   |-> db.alerts_collection,
      logs_collection     |-> db.logs_collection,
      settings_collection |-> db.settings_collection,
      status              |-> st,
      result              |-> [success |-> success, message |-> message] ]

\* lines 243-254: update_system_status on the changed object, then the
\* info alert and the manual_control log entry
manual_apply(db, st, action, user, message, hour) ==
    LET u  == update_system_status(db, st, hour)
        c0 == Ctx(u.status, u.alerts_collection, u.logs_collection)
        c1 == IF u.result
              THEN _log_activity(create_alert(c0, Msg(message), "info", "bomba", 3),
                                 "manual_control",
                                 Some(action \o " por " \o user))
              ELSE c0
    IN [ status_collection   |-> u.status_collection,
         alerts_collection   |-> c1.alerts,
         logs_collection     |-> c1.logs,
         settings_collection |-> u.settings_collection,
         status              |-> c1.status,
         result              |-> [success |-> u.result, message |-> message] ]

\* the "already on" / "already off" tests left out
manual_pump_control_unchecked(db, found, action, user, hour) ==
    IF found = None
    THEN Returned(db, None, FALSE, "No se pudo obtener estado actual")
    ELSE LET current_status == found[1] IN
         IF action = "start"
         THEN manual_apply(db, [current_status EXCEPT !.bomba_status = "on",
                                                      !.system_mode = "manual"],
                           action, user, "Bomba encendida manualmente", hour)
         ELSE IF action = "stop"
         THEN manual_apply(db, [current_status EXCEPT !.bomba_status = "off",
                                                      !.system_mode = "manual"],
                           action, user, "Bomba apagada manualmente", hour)
         ELSE Returned(db, current_status, FALSE, "Accion no valida")

\* the tests tightened: start only from off, stop only from on
manual_pump_control_off_only(db, found, action, user, hour) ==
    IF found = None
    THEN Returned(db, None, FALSE, "No se pudo obtener estado actual")
    ELSE LET current_status == found[1] IN
         IF action = "start"
         THEN IF current_status.bomba_status # "off"
              THEN Returned(db, current_status, FALSE, "La bomba ya esta encendida")
              ELSE manual_apply(db, [current_status EXCEPT !.bomba_status = "on",
                                                           !.system_mode = "manual"],
                                action, user, "Bomba encendida manualmente", hour)
         ELSE IF action = "stop"
         THEN IF current_status.bomba_status # "on"
              THEN Returned(db, current_status, FALSE, "La bomba ya esta apagada")
              ELSE manual_apply(db, [current_status EXCEPT !.bomba_status = "off",
                                                           !.system_mode = "manual"],
                                action, user, "Bomba apagada manualmente", hour)
         ELSE Returned(db, current_status, FALSE, "Accion no valida")

\* found is what get_current_status returned: None or Some(status)
manual_pump_control(db, found, action, user, hour) ==
    IF found = None
    THEN Returned(db, None, FALSE, "No se pudo obtener estado actual")
    ELSE LET current_status == found[1] IN
         IF action = "start"
         THEN IF current_status.bomba_status = "on"
              THEN Returned(db, current_status, FALSE, "La bomba ya esta encendida")
              ELSE manual_apply(db, [current_status EXCEPT !.bomba_status = "on",
                                                           !.system_mode = "manual"],
                                action, user, "Bomba encendida manualmente", hour)
         ELSE IF action = "stop"
         THEN IF current_status.bomba_status = "off"
              THEN Returned(db, current_status, FALSE, "La bomba ya esta apagada")
              ELSE manual_apply(db, [current_status EXCEPT !.bomba_status = "off",
                                                           !.system_mode = "manual"],
                                action, user, "Bomba apagada manualmente", hour)
         ELSE Returned(db, current_status, FALSE, "Accion no valida")

----------------------------------------------------------------------------
(* services.py: update_settings *)

\* insert_one in place of replace_one: every update adds a document
replace_one_upsert_inserting(coll, doc) == Append(coll, doc)

\* replace_one({}, doc, upsert=True): the first document is replaced, or the
\* document inserted when there is none
replace_one_upsert(coll, doc) ==
    IF Len(coll) > 0 THEN [coll EXCEPT ![1] = doc] ELSE <<doc>>

update_settings(db, se) ==
    LET c == create_alert(Ctx(None, db.alerts_collection, db.logs_collection),
                          Msg("Configuracion del sistema actualizada"),
                          "info", "sistema", 3)
    IN [ status_collection   |-> db.status_collection,
         alerts_collection   |-> c.alerts,
         logs_collection     |-> c.logs,
         settings_collection |-> replace_one_upsert(db.settings_collection, se),
         result              |-> [success |-> TRUE, message |-> ""] ]

----------------------------------------------------------------------------
(* services.py: resolve_alert.  An alert's _id is its position in the     *)
(* collection; an id that is no position matches no document.             *)

\* update_one({"_id": ...}, {"$set": {...}}); modified_count > 0 when the
\* $set changed the matched document
resolve_alert(coll, alert_id, resolved_by, t) ==
    IF alert_id \notin DOMAIN coll
    THEN [alerts |-> coll, success |-> FALSE]
    ELSE LET set == [coll[alert_id] EXCEPT !.resolved = TRUE,
                                           !.resolved_at = Some(t),
                                           !.resolved_by = Some(resolved_by)]
         IN [alerts  |-> [coll EXCEPT ![alert_id] = set],
             success |-> set # coll[alert_id]]

----------------------------------------------------------------------------
(* models.py: the Field(ge=0, le=100) constraints checked when a          *)
(* SystemSettings or SystemStatus is constructed from received values     *)

InPercentRange(x) == 0 <= x /\ x <= 100

\* SystemSettings(**raw) raises no ValidationError
settings_valid(raw) ==
    /\ InPercentRange(raw.fill_trigger_percentage)
    /\ InPercentRange(raw.fill_stop_percentage)

\* SystemStatus(**raw) raises no ValidationError
status_valid(raw) ==
    /\ InPercentRange(raw.tinaco_percentage)
    /\ InPercentRange(raw.cisterna_percentage)

----------------------------------------------------------------------------
(* The values the specifications draw their inputs from. *)

Hours == {3, 12, 19}

PreferredHourLists == {DefaultSettings.preferred_hours, <<19, 20>>}

ControlSettings ==
    SettingsValues({TRUE}, {25, 50}, {50, 90}, {60}, {"low", "medium"},
                   BOOLEAN, PreferredHourLists, BOOLEAN)

ControlStatuses ==
    StatusValues({"low", "medium"}, {22, 25, 50, 90}, {"empty", "low", "high"},
                 PumpStatus, {10, 60, 65}, {0, 240}, {12}, {2},
                 {"manual", "automatic"})

AlertSettings ==
    SettingsValues(BOOLEAN, {25, 50}, {50, 90}, {10, 60}, {"low", "medium"},
                   BOOLEAN, PreferredHourLists, BOOLEAN)

AlertStatuses ==
    StatusValues({"low", "medium"}, {22}, {"empty", "low", "high"},
                 PumpStatus, {10, 60, 65}, {0}, {5, 10, 12}, {2, 5, 6},
                 {"automatic"})

UpdateSettings ==
    SettingsValues(BOOLEAN, {25}, {90}, {60}, {"low"},
                   BOOLEAN, {DefaultSettings.preferred_hours}, BOOLEAN)

UpdateStatuses ==
    StatusValues({"low", "medium"}, {22, 50, 90}, {"empty", "high"},
                 PumpStatus, {10, 60, 65}, {0, 240}, {5, 12}, {2, 6},
                 {"manual", "automatic"})

----------------------------------------------------------------------------
(* _apply_automatic_control applied to one status, settings and hour *)

InitStores ==
    /\ status_collection = <<>>
    /\ alerts_collection = <<>>
    /\ logs_collection = <<>>
    /\ settings_collection = <<>>

\* no handler has been called
InitCall ==
    /\ now = 0
    /\ request = None
    /\ result = None
    /\ calls = 0

InitControl ==
    /\ InitStores
    /\ InitCall
    /\ report \in ControlStatuses
    /\ status = report
    /\ settings \in ControlSettings
    /\ current_hour \in Hours
    /\ pc = "ready"

ApplyAutomaticControl ==
    /\ pc = "ready"
    /\ LET out == _apply_automatic_control(
                      Ctx(status, alerts_collection, logs_collection),
                      settings, current_hour)
       IN /\ status' = out.status
          /\ alerts_collection' = out.alerts
          /\ logs_collection' = out.logs
    /\ pc' = "controlled"
    /\ UNCHANGED <<status_collection, settings_collection, report, settings,
                   current_hour, now, request, result, calls>>

NextControl == ApplyAutomaticControl

SpecControl == InitControl /\ [][NextControl]_vars

----------------------------------------------------------------------------
(* _check_and_generate_alerts applied to one status and settings *)

InitAlerts ==
    /\ InitStores
    /\ InitCall
    /\ report \in AlertStatuses
    /\ status = report
    /\ settings \in AlertSettings
    /\ current_hour = 12
    /\ pc = "ready"

CheckAndGenerateAlerts ==
    /\ pc = "ready"
    /\ LET out == _check_and_generate_alerts(
                      Ctx(status, alerts_collection, logs_collection), settings)
       IN /\ status' = out.status
          /\ alerts_collection' = out.alerts
          /\ logs_collection' = out.logs
    /\ pc' = "alerted"
    /\ UNCHANGED <<status_collection, settings_collection, report, settings,
                   current_hour, now, request, result, calls>>

NextAlerts == CheckAndGenerateAlerts

SpecAlerts == InitAlerts /\ [][NextAlerts]_vars

----------------------------------------------------------------------------
(* update_system_status applied to one report, over a settings collection *)
(* that is empty or holds one document                                     *)

InitUpdate ==
    /\ InitCall
    /\ status_collection = <<>>
    /\ alerts_collection = <<>>
    /\ logs_collection = <<>>
    /\ settings_collection \in {<<>>} \cup {<<se>> : se \in UpdateSettings}
    /\ report \in UpdateStatuses
    /\ status = report
    /\ settings = DefaultSettings
    /\ current_hour \in Hours
    /\ pc = "ready"

UpdateSystemStatus ==
    /\ pc = "ready"
    /\ LET out == update_system_status(
                      [ status_collection   |-> status_collection,
                        alerts_collection   |-> alerts_collection,
                        logs_collection     |-> logs_collection,
                        settings_collection |-> settings_collection ],
                      status, current_hour)
       IN /\ status_collection' = out.status_collection
          /\ alerts_collection' = out.alerts_collection
          /\ logs_collection' = out.logs_collection
          /\ settings_collection' = out.settings_collection
          /\ status' = out.status
          /\ settings' = out.settings
    /\ pc' = "updated"
    /\ UNCHANGED <<report, current_hour, now, request, result, calls>>

NextUpdate == UpdateSystemStatus

SpecUpdate == InitUpdate /\ [][NextUpdate]_vars

----------------------------------------------------------------------------
(* The service: status reports, settings updates and manual pump control  *)
(* in any order, from empty collections                                    *)

MaxCalls == 3

\* the last_updated values a reported status may carry: equal, older or
\* newer than those already stored
Timestamps == {0, 1}

ServiceHours == {12, 19}

ServiceSettings ==
    SettingsValues(BOOLEAN, {25}, {90}, {60}, {"low"},
                   {FALSE}, {DefaultSettings.preferred_hours}, {TRUE})

ServiceStatuses ==
    StatusValues({"low"}, {22, 90}, {"high"}, PumpStatus, {10}, {0}, {12}, {2},
                 {"automatic"})

ManualActions == {"start", "stop", "toggle"}

Db ==
    [ status_collection   |-> status_collection,
      alerts_collection   |-> alerts_collection,
      logs_collection     |-> logs_collection,
      settings_collection |-> settings_collection ]

Init ==
    /\ InitStores
    /\ InitCall
    /\ report = None
    /\ status = None
    /\ settings = DefaultSettings
    /\ current_hour = 0
    /\ pc = "idle"

\* a device reports a status: update_system_status
ReportStatus ==
    /\ calls < MaxCalls
    /\ \E st \in ServiceStatuses, t \in Timestamps, h \in ServiceHours :
         LET received == [st EXCEPT !.last_updated = t]
             out == update_system_status(Db, received, h)
         IN /\ report' = received
            /\ current_hour' = h
            /\ request' = [op |-> "update_system_status"]
            /\ status_collection' = out.status_collection
            /\ alerts_collection' = out.alerts_collection
            /\ logs_collection' = out.logs_collection
            /\ settings_collection' = out.settings_collection
            /\ status' = out.status
            /\ settings' = out.settings
            /\ result' = [success |-> out.result, message |-> ""]
    /\ pc' = "updated"
    /\ calls' = calls + 1
    /\ UNCHANGED now

SaveSettings ==
    /\ calls < MaxCalls
    /\ \E se \in ServiceSettings :
         LET out == update_settings(Db, se)
         IN /\ request' = [op |-> "update_settings"]
            /\ settings' = se
            /\ status_collection' = out.status_collection
            /\ alerts_collection' = out.alerts_collection
            /\ logs_collection' = out.logs_collection
            /\ settings_collection' = out.settings_collection
            /\ result' = out.result
    /\ pc' = "settings_updated"
    /\ calls' = calls + 1
    /\ UNCHANGED <<report, status, current_hour, now>>

\* report is the status get_current_status returned, status the object the
\* call reports as new_status
ManualPumpControl ==
    /\ calls < MaxCalls
    /\ \E action \in ManualActions, h \in ServiceHours,
          found \in IF status_collection = <<>> THEN {None}
                    ELSE {Some(st) : st \in get_current_status(status_collection)} :
         LET out == manual_pump_control(Db, found, action, "manual", h)
         IN /\ report' = IF found = None THEN None ELSE found[1]
            /\ current_hour' = h
            /\ request' = [op |-> "manual_pump_control", action |-> action,
                           user |-> "manual"]
            /\ status_collection' = out.status_collection
            /\ alerts_collection' = out.alerts_collection
            /\ logs_collection' = out.logs_collection
            /\ settings_collection' = out.settings_collection
            /\ status' = out.status
            /\ settings' = get_settings(settings_collection)
            /\ result' = out.result
    /\ pc' = "manual"
    /\ calls' = calls + 1
    /\ UNCHANGED now

Next == ReportStatus \/ SaveSettings \/ ManualPumpControl

Spec == Init /\ [][Next]_vars

----------------------------------------------------------------------------
(* Alerts created and resolved in any order *)

MaxAlerts == 2

MaxAlertCalls == 4

Resolvers == {"system", "ana"}

InitAlertLife ==
    /\ InitStores
    /\ InitCall
    /\ report = None
    /\ status = None
    /\ settings = DefaultSettings
    /\ current_hour = 0
    /\ pc = "idle"

CreateAlert ==
    /\ calls < MaxAlertCalls
    /\ Len(alerts_collection) < MaxAlerts
    /\ \E kind \in {<<"warning", "tinaco", 3>>, <<"critical", "cisterna", 5>>} :
         LET out == create_alert(Ctx(None, alerts_collection, logs_collection),
                                 Msg("alerta"), kind[1], kind[2], kind[3])
         IN /\ alerts_collection' = out.alerts
            /\ request' = [op |-> "create_alert"]
            /\ result' = [success |-> TRUE, message |-> ""]
    /\ pc' = "alert_created"
    /\ calls' = calls + 1
    /\ UNCHANGED <<status_collection, logs_collection, settings_collection,
                   report, status, settings, current_hour, now>>

\* the clock may have moved on since the last call
ResolveAlert ==
    /\ calls < MaxAlertCalls
    /\ \E alert_id \in 1..MaxAlerts, by \in Resolvers, t \in {now, now + 1} :
         LET out == resolve_alert(alerts_collection, alert_id, by, t)
         IN /\ now' = t
            /\ alerts_collection' = out.alerts
            /\ request' = [op |-> "resolve_alert", alert_id |-> alert_id,
                           resolved_by |-> by]
            /\ result' = [success |-> out.success, message |-> ""]
    /\ pc' = "resolved"
    /\ calls' = calls + 1
    /\ UNCHANGED <<status_collection, logs_collection, settings_collection,
                   report, status, settings, current_hour>>

NextAlertLife == CreateAlert \/ ResolveAlert

SpecAlertLife == InitAlertLife /\ [][NextAlertLife]_vars

----------------------------------------------------------------------------
(* Settings and status values received, validated and processed *)

MaxPosts == 3

\* received settings: the fields sent, the others at their defaults
RawSettings ==
    { [DefaultSettings EXCEPT !.system_name = n,
                              !.auto_mode_enabled = a,
                              !.fill_trigger_percentage = tr,
                              !.fill_stop_percentage = sp] :
        n \in {"SmartWater System", "Casa"}, a \in BOOLEAN,
        tr \in {-5, 25, 50}, sp \in {50, 90, 120} }

RawStatuses ==
    StatusValues({"medium"}, {50, 120}, {"high"}, {"off", "on"}, {10}, {0},
                 {12}, {2}, {"automatic"})

InitSettings ==
    /\ InitStores
    /\ InitCall
    /\ report = None
    /\ status = None
    /\ settings = DefaultSettings
    /\ current_hour = 0
    /\ pc = "idle"

\* SystemSettings(**raw), then update_settings; settings is the value last
\* saved
PostSettings ==
    /\ calls < MaxPosts
    /\ \E raw \in RawSettings :
         /\ request' = [op |-> "update_settings", raw |-> raw]
         /\ IF settings_valid(raw)
            THEN LET out == update_settings(Db, raw)
                 IN /\ settings' = raw
                    /\ alerts_collection' = out.alerts_collection
                    /\ settings_collection' = out.settings_collection
                    /\ result' = out.result
            ELSE /\ result' = [success |-> FALSE, message |-> "ValidationError"]
                 /\ UNCHANGED <<settings, alerts_collection, settings_collection>>
    /\ pc' = "settings_posted"
    /\ calls' = calls + 1
    /\ UNCHANGED <<status_collection, logs_collection, report, status,
                   current_hour, now>>

\* SystemStatus(**raw), then update_system_status
PostStatus ==
    /\ calls < MaxPosts
    /\ \E raw \in RawStatuses :
         /\ request' = [op |-> "update_system_status", raw |-> raw]
         /\ IF status_valid(raw)
            THEN LET out == update_system_status(Db, raw, 12)
                 IN /\ report' = raw
                    /\ status' = out.status
                    /\ settings' = out.settings
                    /\ status_collection' = out.status_collection
                    /\ alerts_collection' = out.alerts_collection
                    /\ logs_collection' = out.logs_collection
                    /\ result' = [success |-> out.result, message |-> ""]
            ELSE /\ result' = [success |-> FALSE, message |-> "ValidationError"]
                 /\ UNCHANGED <<report, status, settings, status_collection,
                                alerts_collection, logs_collection>>
    /\ current_hour' = 12
    /\ pc' = "status_posted"
    /\ calls' = calls + 1
    /\ UNCHANGED <<settings_collection, now>>

NextSettings == PostSettings \/ PostStatus

SpecSettings == InitSettings /\ [][NextSettings]_vars

----------------------------------------------------------------------------
(* Properties of _apply_automatic_control, checked under SpecControl.     *)
(* report is the status the call received, status the object it left.     *)

Controlled == pc = "controlled"

\* the start condition of the report
StartConditionHolds ==
    /\ report.bomba_status = "off"
    /\ report.tinaco_percentage <= settings.fill_trigger_percentage
    /\ report.cisterna_level # "empty"
    /\ report.bomba_total_runtime_today < settings.max_daily_runtime_minutes

EnergyGateApplies ==
    settings.energy_saving_enabled /\ ~InList(current_hour, settings.preferred_hours)

PeakGateApplies ==
    settings.avoid_peak_hours /\ InList(current_hour, settings.peak_hours)

StopAboveTrigger ==
    settings.fill_stop_percentage > settings.fill_trigger_percentage

Logged(action) ==
    \E i \in DOMAIN logs_collection : logs_collection[i].action = action

Alerted(text) ==
    \E i \in DOMAIN alerts_collection : alerts_collection[i].message.text = text

\* C1: with stop > trigger, a report that satisfies the start condition and
\* meets no policy gate leaves automatic control with the pump on and the
\* mode automatic.
C1_AutomaticStart ==
    (Controlled /\ StopAboveTrigger /\ StartConditionHolds
       /\ ~EnergyGateApplies /\ ~PeakGateApplies)
    => (status.bomba_status = "on" /\ status.system_mode = "automatic")

\* C2: with stop > trigger, one invocation of automatic control never
\* applies both the start transition (auto_start) and the stop transition
\* (auto_stop) to the same status.
C2_StartStopExclusive ==
    (Controlled /\ StopAboveTrigger)
    => ~(Logged("auto_start") /\ Logged("auto_stop"))

\* C3: a pump in maintenance or error keeps its state through automatic
\* control, and any state automatic control changes the pump to is off or on.
C3_MaintenanceErrorKept ==
    Controlled =>
      /\ report.bomba_status \in {"maintenance", "error"}
           => status.bomba_status = report.bomba_status
      /\ status.bomba_status # report.bomba_status
           => status.bomba_status \in {"off", "on"}

\* a pump in maintenance went through automatic control while a stop
\* condition (cisterna empty) and the tinaco part of the start condition held
C3_Witness ==
    /\ Controlled
    /\ report.bomba_status = "maintenance"
    /\ report.cisterna_level = "empty"
    /\ report.tinaco_percentage <= settings.fill_trigger_percentage
    /\ status.bomba_status = "maintenance"

\* the reason the priority order cisterna > runtime > fill gives the report
PriorityReason ==
    IF report.cisterna_level = "empty" THEN "Cisterna vacia"
    ELSE IF report.bomba_runtime_minutes >= settings.max_pump_runtime_minutes
         THEN "Tiempo maximo alcanzado"
         ELSE "Llenado completado"

AnyStopCondition ==
    \/ report.cisterna_level = "empty"
    \/ report.bomba_runtime_minutes >= settings.max_pump_runtime_minutes
    \/ report.tinaco_percentage >= settings.fill_stop_percentage

\* the call stopped the pump and reported exactly this reason
StoppedWithReason(reason) ==
    /\ status.bomba_status = "off"
    /\ Len(logs_collection) = 1
    /\ logs_collection[1].action = "auto_stop"
    /\ logs_collection[1].notes = Some(reason)
    /\ Len(alerts_collection) = 1
    /\ alerts_collection[1].message = stop_message(reason)

\* C4: a pump that is on with at least one stop condition is turned off,
\* and the reason reported is the first that matches in the order cisterna
\* empty, max runtime reached, fill complete.
C4_StopReasonPriority ==
    (Controlled /\ report.bomba_status = "on" /\ AnyStopCondition)
    => StoppedWithReason(PriorityReason)

\* all three stop conditions held at once and the pump was stopped
C4_Witness ==
    /\ Controlled
    /\ report.bomba_status = "on"
    /\ report.cisterna_level = "empty"
    /\ report.bomba_runtime_minutes >= settings.max_pump_runtime_minutes
    /\ report.tinaco_percentage >= settings.fill_stop_percentage
    /\ StoppedWithReason("Cisterna vacia")

\* C5 as stated: pump on and runtime >= max_pump_runtime_minutes stops the
\* pump with the reason "Tiempo maximo alcanzado", whatever the rest.
C5_MaxRuntimeReason ==
    (Controlled /\ report.bomba_status = "on"
       /\ report.bomba_runtime_minutes >= settings.max_pump_runtime_minutes)
    => StoppedWithReason("Tiempo maximo alcanzado")

\* C5 amended: pump on, cisterna not empty and runtime >=
\* max_pump_runtime_minutes stops the pump with the reason "Tiempo maximo
\* alcanzado", whatever the tinaco percentage; with the cisterna empty the
\* pump is stopped all the same.
C5_MaxRuntimeReasonCisternaNotEmpty ==
    (Controlled /\ report.bomba_status = "on"
       /\ report.bomba_runtime_minutes >= settings.max_pump_runtime_minutes)
    => /\ status.bomba_status = "off"
       /\ report.cisterna_level # "empty"
            => StoppedWithReason("Tiempo maximo alcanzado")

\* the runtime limit and the fill level were both reached, cisterna not empty
C5_Witness ==
    /\ Controlled
    /\ report.bomba_status = "on"
    /\ report.cisterna_level # "empty"
    /\ report.bomba_runtime_minutes >= settings.max_pump_runtime_minutes
    /\ report.tinaco_percentage >= settings.fill_stop_percentage
    /\ StoppedWithReason("Tiempo maximo alcanzado")

\* C6: a report that satisfies the start condition while energy saving is
\* enabled and the hour is not a preferred one leaves the pump state and the
\* mode as they were, and no start is applied.
C6_EnergySavingDeferral ==
    (Controlled /\ StartConditionHolds /\ EnergyGateApplies)
    => /\ status.bomba_status = report.bomba_status
       /\ status.system_mode = report.system_mode
       /\ ~Logged("auto_start")

\* a start was deferred by the energy-saving gate with the mode at manual
C6_Witness ==
    /\ Controlled
    /\ StartConditionHolds
    /\ EnergyGateApplies
    /\ report.system_mode = "manual"
    /\ status.system_mode = "manual"
    /\ Alerted("Llenado pospuesto por modo ahorro energetico")

\* C7: a start that the energy-saving gate lets through is deferred by the
\* peak-hours gate (pump state unchanged, the peak-hours deferral reported);
\* when both gates apply, the one deferral reported is the energy-saving one.
C7_PeakDeferralAfterEnergyGate ==
    (Controlled /\ StartConditionHolds /\ PeakGateApplies)
    => /\ status.bomba_status = report.bomba_status
       /\ ~Logged("auto_start")
       /\ Len(alerts_collection) = 1
       /\ alerts_collection[1].message.text =
            IF EnergyGateApplies
            THEN "Llenado pospuesto por modo ahorro energetico"
            ELSE "Llenado pospuesto por horas pico"

\* energy saving was enabled and the hour preferred, so the first gate let
\* the start through and the peak-hours gate deferred it
C7_Witness ==
    /\ Controlled
    /\ StartConditionHolds
    /\ settings.energy_saving_enabled
    /\ ~EnergyGateApplies
    /\ PeakGateApplies
    /\ status.bomba_status = "off"
    /\ Alerted("Llenado pospuesto por horas pico")

\* both gates applied and the energy-saving deferral was reported
C7_BothGates ==
    /\ Controlled
    /\ StartConditionHolds
    /\ EnergyGateApplies
    /\ PeakGateApplies
    /\ Alerted("Llenado pospuesto por modo ahorro energetico")

----------------------------------------------------------------------------
(* Properties of _check_and_generate_alerts, checked under SpecAlerts *)

AlertsChecked == pc = "alerted"

\* what a rule contributes to the result: its alert when it holds
RuleOutcome(holds, alert_type, severity, component) ==
    IF holds
    THEN <<[alert_type |-> alert_type, severity_level |-> severity,
            component |-> component]>>
    ELSE <<>>

\* type, severity and component of the alerts in the collection, in order
AlertKinds ==
    [i \in DOMAIN alerts_collection |->
        [alert_type     |-> alerts_collection[i].alert_type,
         severity_level |-> alerts_collection[i].severity_level,
         component      |-> alerts_collection[i].component]]

\* C8: the alerts produced are exactly those of the five rules that hold
\* for the status, each rule on its own condition, in the order of the rules.
C8_AlertRules ==
    AlertsChecked =>
      AlertKinds =
           RuleOutcome(report.cisterna_level = "empty", "critical", 5, "cisterna")
        \o RuleOutcome(report.bomba_runtime_minutes > settings.max_pump_runtime_minutes,
                       "error", 4, "bomba")
        \o RuleOutcome(report.tinaco_level = "low" /\ report.cisterna_level # "empty"
                         /\ report.bomba_status = "off",
                       "warning", 3, "tinaco")
        \o RuleOutcome(report.daily_power_consumption > 5, "warning", 3, "energia")
        \o RuleOutcome(report.bomba_status = "on"
                         /\ report.water_flow_rate < settings.flow_rate_threshold,
                       "warning", 3, "bomba")

\* rules 1, 2, 4 and 5 fired together from one status, in that order
C8_Witness ==
    /\ AlertsChecked
    /\ Len(alerts_collection) = 4
    /\ alerts_collection[1].component = "cisterna"
    /\ alerts_collection[2].alert_type = "error"
    /\ alerts_collection[3].component = "energia"
    /\ alerts_collection[4].message.text = "Flujo de agua bajo: {:.1f} L/min"

EnergyAlertEmitted ==
    \E i \in DOMAIN alerts_collection : alerts_collection[i].component = "energia"

NumericSettings ==
    {"fill_trigger_percentage", "fill_stop_percentage", "max_pump_runtime_minutes",
     "max_daily_runtime_minutes", "flow_rate_threshold"}

\* C9 as stated: the energy alert fires exactly when the daily power
\* consumption is greater than a threshold that is a value of the settings.
C9_EnergyThresholdFromSettings ==
    AlertsChecked =>
      \E f \in NumericSettings :
          EnergyAlertEmitted <=> report.daily_power_consumption > settings[f]

\* C9 amended: the energy alert fires exactly when the daily power
\* consumption is greater than 5 kWh, under every settings value.
C9_EnergyThresholdFixed ==
    AlertsChecked =>
      (EnergyAlertEmitted <=> report.daily_power_consumption > 5)

\* 6 kWh raised the energy alert although no number of the settings is below 6
C9_Witness ==
    /\ AlertsChecked
    /\ report.daily_power_consumption = 6
    /\ \A f \in NumericSettings : settings[f] >= 6
    /\ EnergyAlertEmitted

----------------------------------------------------------------------------
(* Properties of update_system_status, checked under SpecUpdate *)

Updated == pc = "updated"

TinacoAlertEmitted ==
    \E i \in DOMAIN alerts_collection : alerts_collection[i].component = "tinaco"

LowFlowAlertEmitted ==
    \E i \in DOMAIN alerts_collection :
        /\ alerts_collection[i].component = "bomba"
        /\ alerts_collection[i].alert_type = "warning"

RuntimeAlertEmitted ==
    \E i \in DOMAIN alerts_collection :
        /\ alerts_collection[i].alert_type = "error"
        /\ alerts_collection[i].severity_level = 4
        /\ alerts_collection[i].component = "bomba"

\* the report's pump was stopped for the runtime limit
StoppedForMaxRuntime ==
    /\ status.bomba_status = "off"
    /\ \E i \in DOMAIN logs_collection :
          /\ logs_collection[i].action = "auto_stop"
          /\ logs_collection[i].notes = Some("Tiempo maximo alcanzado")
    /\ Alerted("Bomba apagada automaticamente: Tiempo maximo alcanzado")

OverRuntimeReport ==
    /\ report.bomba_status = "on"
    /\ report.cisterna_level # "empty"
    /\ report.bomba_runtime_minutes > settings.max_pump_runtime_minutes

\* C11 as stated: every report with the pump on, the cisterna not empty and
\* the runtime over the limit has the pump stopped for max runtime and the
\* rule-2 alert emitted.
C11_OverRuntimeReport ==
    (Updated /\ OverRuntimeReport)
    => (StoppedForMaxRuntime /\ RuntimeAlertEmitted)

\* C11 amended: such a report raises the rule-2 alert, and with auto mode
\* enabled its pump is stopped for max runtime as well.
C11_OverRuntimeReportAutoMode ==
    (Updated /\ OverRuntimeReport)
    => /\ RuntimeAlertEmitted
       /\ settings.auto_mode_enabled => StoppedForMaxRuntime

\* runtime 65 against 60 with auto mode enabled: stopped and alerted
C11_Witness ==
    /\ Updated
    /\ settings.auto_mode_enabled
    /\ OverRuntimeReport
    /\ report.bomba_runtime_minutes = 65
    /\ settings.max_pump_runtime_minutes = 60
    /\ StoppedForMaxRuntime
    /\ RuntimeAlertEmitted

\* C19: with auto mode disabled the status leaves update_system_status as it
\* came, no auto_start / auto_stop log and no control alert is produced, and
\* the alerts are those of the rules on the unchanged status.
C19_AutoModeDisabled ==
    (Updated /\ ~settings.auto_mode_enabled) =>
      /\ status = report
      /\ ~Logged("auto_start") /\ ~Logged("auto_stop")
      /\ \A i \in DOMAIN alerts_collection : alerts_collection[i].alert_type # "info"
      /\ AlertKinds =
              RuleOutcome(report.cisterna_level = "empty", "critical", 5, "cisterna")
           \o RuleOutcome(report.bomba_runtime_minutes > settings.max_pump_runtime_minutes,
                          "error", 4, "bomba")
           \o RuleOutcome(report.tinaco_level = "low" /\ report.cisterna_level # "empty"
                            /\ report.bomba_status = "off",
                          "warning", 3, "tinaco")
           \o RuleOutcome(report.daily_power_consumption > 5, "warning", 3, "energia")
           \o RuleOutcome(report.bomba_status = "on"
                            /\ report.water_flow_rate < settings.flow_rate_threshold,
                          "warning", 3, "bomba")

\* auto mode disabled and a report that satisfies the start condition: the
\* pump stayed off and the tinaco-low warning was raised
C19_Witness ==
    /\ Updated
    /\ ~settings.auto_mode_enabled
    /\ StartConditionHolds
    /\ status.bomba_status = "off"
    /\ TinacoAlertEmitted

----------------------------------------------------------------------------
(* The frame of _apply_automatic_control, checked under SpecControl *)

\* C18: automatic control changes no field of the status other than
\* bomba_status and system_mode.
C18_ControlFrame ==
    Controlled =>
      [status EXCEPT !.bomba_status = report.bomba_status,
                     !.system_mode = report.system_mode] = report

\* C18: automatic control never changes the settings value it was given.
C18_SettingsKept == [][NextControl => settings' = settings]_vars

\* the pump was started from manual mode: both fields changed, the rest kept
C18_Witness ==
    /\ Controlled
    /\ report.bomba_status = "off"
    /\ report.system_mode = "manual"
    /\ status.bomba_status = "on"
    /\ status.system_mode = "automatic"
    /\ status.bomba_runtime_minutes = report.bomba_runtime_minutes

----------------------------------------------------------------------------
(* The log entries of update_system_status, checked under SpecUpdate *)

LogActions == [i \in DOMAIN logs_collection |-> logs_collection[i].action]

\* C15 as stated: a processed report yields exactly one log entry, tagged
\* auto_start, auto_stop, deferred or no_action.
C15_OneDecisionLogEntry ==
    Updated =>
      /\ Len(logs_collection) = 1
      /\ logs_collection[1].action \in {"auto_start", "auto_stop", "deferred", "no_action"}

StartApplied ==
    /\ settings.auto_mode_enabled
    /\ StartConditionHolds
    /\ ~EnergyGateApplies
    /\ ~PeakGateApplies

StopApplied ==
    /\ settings.auto_mode_enabled
    /\ report.bomba_status = "on" \/ StartApplied
    /\ AnyStopCondition

\* C15 amended: a processed report yields one log entry tagged
\* status_update, written last; before it comes an auto_start entry when
\* automatic control applied the start transition and an auto_stop entry
\* when it applied the stop transition.  A deferred start and a report that
\* changes nothing add no entry of their own.
C15_StatusUpdateLogEntry ==
    Updated =>
      LogActions =
           (IF StartApplied THEN <<"auto_start">> ELSE <<>>)
        \o (IF StopApplied THEN <<"auto_stop">> ELSE <<>>)
        \o <<"status_update">>

\* a start deferred by the peak-hours gate: the report's only log entry is
\* the status_update one
C15_Witness ==
    /\ Updated
    /\ settings.auto_mode_enabled
    /\ StartConditionHolds
    /\ PeakGateApplies
    /\ Alerted("Llenado pospuesto por horas pico")
    /\ LogActions = <<"status_update">>

----------------------------------------------------------------------------
(* Properties of manual_pump_control, checked under Spec.  After a        *)
(* ManualPumpControl step report is the status get_current_status gave    *)
(* the call and status the object returned as new_status.                  *)

ManualDone == pc = "manual"

\* the step is a call of manual_pump_control that found a latest status
ManualStep == calls' = calls + 1 /\ pc' = "manual" /\ status_collection # <<>>

\* C12: a manual start with the latest pump state on, and a manual stop
\* with the latest pump state off, report failure and leave the four
\* collections as they were.
C12_SameStateRejected ==
    [][ ( /\ ManualStep
          /\ \/ request'.action = "start" /\ report'.bomba_status = "on"
             \/ request'.action = "stop" /\ report'.bomba_status = "off" )
        => ( /\ ~result'.success
             /\ UNCHANGED <<status_collection, alerts_collection,
                            logs_collection, settings_collection>> ) ]_vars

\* a manual start found the pump on and was refused
C12_Witness ==
    /\ ManualDone
    /\ status_collection # <<>>
    /\ request.action = "start"
    /\ report.bomba_status = "on"
    /\ ~result.success
    /\ result.message = "La bomba ya esta encendida"

RequestedState == IF request.action = "start" THEN "on" ELSE "off"

\* C13: after an accepted manual start or stop the pump state reported as
\* new_status is the requested one, whatever the levels, runtimes and
\* settings.
C13_ManualBypassesControl ==
    (ManualDone /\ result.success) => status.bomba_status = RequestedState

\* C14: an accepted manual action records a log entry tagged manual_start
\* (for start) or manual_stop (for stop).
C14_ManualLogTag ==
    (ManualDone /\ result.success) =>
      Logged(IF request.action = "start" THEN "manual_start" ELSE "manual_stop")

----------------------------------------------------------------------------
(* Validation and the settings store, checked under SpecSettings *)

StopNotAboveTrigger(se) ==
    se.fill_stop_percentage <= se.fill_trigger_percentage

PercentOutOfRange(x) == x < 0 \/ x > 100

Refused == ~result.success /\ result.message = "ValidationError"

\* C16: received settings with stop <= trigger or a percentage outside
\* [0,100], and a received status with a percentage outside [0,100], are
\* refused with a validation error, and no settings value with stop <=
\* trigger is ever the one the engines are given.
C16_InvalidInputRejected ==
    /\ ( /\ pc = "settings_posted"
         /\ \/ StopNotAboveTrigger(request.raw)
            \/ PercentOutOfRange(request.raw.fill_trigger_percentage)
            \/ PercentOutOfRange(request.raw.fill_stop_percentage) )
       => Refused
    /\ ( /\ pc = "status_posted"
         /\ \/ PercentOutOfRange(request.raw.tinaco_percentage)
            \/ PercentOutOfRange(request.raw.cisterna_percentage) )
       => Refused
    /\ ~StopNotAboveTrigger(get_settings(settings_collection))

SettingsSaved(i) ==
    /\ i \in DOMAIN alerts_collection
    /\ alerts_collection[i].message.text = "Configuracion del sistema actualizada"

\* C20: from an empty store the settings collection never holds more than
\* one document, and get_settings gives the value last saved, whole, or the
\* defaults when none was saved.
C20_SingleCurrentSettings ==
    /\ Len(settings_collection) <= 1
    /\ get_settings(settings_collection) = settings
    /\ settings_collection = <<>> => settings = DefaultSettings
    /\ settings_collection # <<>> => settings_collection[1] = settings

\* two settings values were saved one after the other, differing in two
\* fields, and the store holds the second alone
C20_Witness ==
    /\ pc = "settings_posted"
    /\ result.success
    /\ SettingsSaved(1) /\ SettingsSaved(2)
    /\ Len(settings_collection) = 1
    /\ settings_collection[1] = request.raw
    /\ request.raw.system_name = "Casa"
    /\ ~request.raw.auto_mode_enabled

----------------------------------------------------------------------------
(* The alert lifecycle, checked under SpecAlertLife *)

\* the step is a successful resolve_alert on alert i
ResolveSucceeds(i) ==
    /\ calls' = calls + 1
    /\ pc' = "resolved"
    /\ request'.alert_id = i
    /\ result'.success

\* C17: once an alert is resolved, no step changes it (its resolved flag,
\* resolver and resolution time stay) and no resolve_alert on it succeeds.
C17_ResolvedOnce ==
    [][ \A i \in DOMAIN alerts_collection :
          alerts_collection[i].resolved
          => ( /\ alerts_collection'[i] = alerts_collection[i]
               /\ ~ResolveSucceeds(i) ) ]_vars

----------------------------------------------------------------------------
(* The state automatic control leaves, checked under SpecControl *)

\* a stop condition holds of the status the call left
StopConditionAfter ==
    \/ status.cisterna_level = "empty"
    \/ status.bomba_runtime_minutes >= settings.max_pump_runtime_minutes
    \/ status.tinaco_percentage >= settings.fill_stop_percentage

\* C21: automatic control never leaves the pump on while the cisterna is
\* empty, the runtime has reached max_pump_runtime_minutes or the tinaco
\* has reached fill_stop_percentage, whatever status and settings it got.
C21_NoPumpOnUnderStopCondition ==
    Controlled => ~(status.bomba_status = "on" /\ StopConditionAfter)

\* a pump the call started with the runtime already at the limit was
\* stopped by the same call
C21_Witness ==
    /\ Controlled
    /\ report.bomba_status = "off"
    /\ report.bomba_runtime_minutes >= settings.max_pump_runtime_minutes
    /\ LogActions = <<"auto_start", "auto_stop">>
    /\ status.bomba_status = "off"

\* what the call would have left had min_cisterna_level_to_start been level
ControlledWithMinimum(level) ==
    _apply_automatic_control(
        Ctx(report, <<>>, <<>>),
        [settings EXCEPT !.min_cisterna_level_to_start = level],
        current_hour)

\* C25: the outcome of automatic control (pump state, mode, alerts and log
\* entries) is the same for every value of min_cisterna_level_to_start, the
\* other settings, the status and the hour being equal.
C25_MinCisternaLevelIgnored ==
    Controlled =>
      \A level \in TankLevel :
          ControlledWithMinimum(level) =
              Ctx(status, alerts_collection, logs_collection)

\* the pump was started with the cisterna at low under a configured
\* minimum of medium
C25_Witness ==
    /\ Controlled
    /\ settings.min_cisterna_level_to_start = "medium"
    /\ report.cisterna_level = "low"
    /\ report.bomba_status = "off"
    /\ status.bomba_status = "on"
    /\ Logged("auto_start")

----------------------------------------------------------------------------
(* The runtime limit in control and in alerting, checked under SpecUpdate *)

\* the pump is on with the runtime exactly at the limit
AtRuntimeLimitReport ==
    /\ report.bomba_status = "on"
    /\ report.bomba_runtime_minutes = settings.max_pump_runtime_minutes

\* C23 as stated: every report with the pump on and the runtime exactly at
\* max_pump_runtime_minutes has the pump stopped with reason max runtime
\* reached and no rule-2 alert.
C23_RuntimeBoundary ==
    (Updated /\ AtRuntimeLimitReport)
    => (StoppedForMaxRuntime /\ ~RuntimeAlertEmitted)

\* C23 amended: such a report raises no rule-2 alert, and with auto mode
\* enabled and the cisterna not empty its pump is stopped with reason max
\* runtime reached.
C23_RuntimeBoundaryAutoMode ==
    (Updated /\ AtRuntimeLimitReport)
    => /\ ~RuntimeAlertEmitted
       /\ (settings.auto_mode_enabled /\ report.cisterna_level # "empty")
          => StoppedForMaxRuntime

\* runtime 60 against 60 with auto mode enabled: stopped, not alerted
C23_Witness ==
    /\ Updated
    /\ settings.auto_mode_enabled
    /\ AtRuntimeLimitReport
    /\ report.bomba_runtime_minutes = 60
    /\ report.cisterna_level # "empty"
    /\ StoppedForMaxRuntime
    /\ ~RuntimeAlertEmitted

----------------------------------------------------------------------------
(* The status store and manual control, checked under Spec *)

LatestStored == status_collection[Len(status_collection)]

\* C24: with the latest pump state maintenance or error, a manual start and
\* a manual stop are both accepted, and the status record written has the
\* pump in the requested state and the mode manual; a start is refused
\* only from on and a stop only from off.
C24_ManualFromMaintenanceOrError ==
    (ManualDone /\ status_collection # <<>> /\ request.action \in {"start", "stop"})
    => /\ report.bomba_status \in {"maintenance", "error"}
          => /\ result.success
             /\ LatestStored = [report EXCEPT !.bomba_status = RequestedState,
                                              !.system_mode = "manual"]
       /\ request.action = "start" => (result.success <=> report.bomba_status # "on")
       /\ request.action = "stop" => (result.success <=> report.bomba_status # "off")

\* a pump in error was switched on by hand
C24_Witness ==
    /\ ManualDone
    /\ status_collection # <<>>
    /\ request.action = "start"
    /\ report.bomba_status = "error"
    /\ result.success
    /\ LatestStored.bomba_status = "on"
    /\ LatestStored.system_mode = "manual"

\* the step is a call of update_system_status with a reported status
ReportStep == calls' = calls + 1 /\ pc' = "updated"

\* the last call was a report whose pump automatic control switched, and
\* no stored record is as new as the report's
SwitchedNewestReport ==
    /\ pc = "updated"
    /\ status.bomba_status # report.bomba_status
    /\ \A i \in 1..(Len(status_collection) - 1) :
          status_collection[i].last_updated < report.last_updated

\* C22: a report is stored as received, whatever automatic control then
\* does to it.  After a report whose pump automatic control started or
\* stopped, and which is the newest stored, get_current_status gives the
\* report as received, and a manual start or stop that follows is judged
\* against the received pump state: it is accepted exactly when it asks
\* for the state the automatic decision had already produced.
C22_PersistedBeforeControl ==
    [][ /\ ReportStep => status_collection' = Append(status_collection, report')
        /\ SwitchedNewestReport => get_current_status(status_collection) = {report}
        /\ (SwitchedNewestReport /\ ManualStep)
           => /\ report' = report
              /\ result'.success
                 <=> \/ request'.action = "start" /\ status.bomba_status = "on"
                     \/ request'.action = "stop" /\ status.bomba_status = "off" ]_vars

\* the first report started the pump automatically and was stored with the
\* pump off; the manual start that followed found it off and was accepted
C22_Witness ==
    /\ ManualDone
    /\ request.action = "start"
    /\ result.success
    /\ Len(status_collection) = 2
    /\ status_collection[1] = report
    /\ report.bomba_status = "off"
    /\ Len(logs_collection) > 1
    /\ LogActions[1] = "auto_start"
    /\ LogActions[2] = "status_update"

====
